---- MODULE Spec2Model ----
(***************************************************************************)
(* Model of core/base.py: the placement-group helpers                      *)
(* (create_placement_group, remove_placement_group_safe) and the actor     *)
(* option resolution of BaseActor (options, as_remote).                    *)
(*                                                                         *)
(* Encoding of Python values.  Every ActorOptions field holds an integer:  *)
(* None is -1; CPU/GPU quantities are counted in quarters (0.25 -> 1,      *)
(* 0.5 -> 2, 1 -> 4, 2 -> 8); a resources mapping is 0 for the empty       *)
(* mapping and a positive index for a non-empty one; name, namespace and   *)
(* lifetime strings are non-negative indices; a placement group is the     *)
(* identity of the PlacementGroup object the scheduler handed out.         *)
(* Each call gets a call id; the PlacementGroup object a call obtains from *)
(* placement_group() and the ActorOptions object it constructs are         *)
(* identified by that call id, so every such object is fresh.              *)
(***************************************************************************)
EXTENDS Integers, Sequences, FiniteSets, TLC

\* ------------------------------------------------------------------------
\* Bounds
\* ------------------------------------------------------------------------
MaxCalls == 2

CallIds == 1..MaxCalls

\* every call is issued by a thread of its own; the threads are numbered in
\* the order in which they start their call
Callers == CallIds

\* ------------------------------------------------------------------------
\* Values
\* ------------------------------------------------------------------------
None == -1

\* a placement group that exists before any modelled call: the handle a
\* caller supplies through an override (the sentinel of the unit test)
ExternalPg == 0

Tokens == {ExternalPg} \cup CallIds

\* placement_group_spec = None on a class
NoSpec == [none |-> TRUE]

GpuSpec == [bundles |-> <<[GPU |-> 1]>>, strategy |-> "PACK", timeout_s |-> 30]

\* PlacementGroupSpec is a plain frozen dataclass: nothing validates it
EmptySpec == [bundles |-> <<>>, strategy |-> "SPREAD", timeout_s |-> 0]

SpecChoices == {GpuSpec, EmptySpec}

\* placement_group_spec of a class: BaseActor's None, or the test's spec
ClassSpecChoices == {NoSpec, GpuSpec}

\* variant: the bundles are not passed on
PlacementGroupSpec_to_kwargs_NoBundles(self) ==
    [bundles |-> <<>>, strategy |-> self.strategy]

PlacementGroupSpec_to_kwargs(self) ==
    [bundles |-> self.bundles, strategy |-> self.strategy]

\* ------------------------------------------------------------------------
\* ActorOptions
\* ------------------------------------------------------------------------
KnownKeys == {"num_cpus", "num_gpus", "resources", "max_concurrency",
              "name", "namespace", "lifetime", "placement_group"}

ActorOptions(num_cpus, num_gpus, resources, max_concurrency, name, namespace, lifetime, placement_group) ==
    [num_cpus |-> num_cpus, num_gpus |-> num_gpus, resources |-> resources,
     max_concurrency |-> max_concurrency, name |-> name,
     namespace |-> namespace, lifetime |-> lifetime,
     placement_group |-> placement_group]

\* default_options of BaseActor, and of a class whose default already
\* carries resources, tags and a handle
DefaultChoices ==
    { ActorOptions(2, 0, None, None, None, None, None, None),
      ActorOptions(4, 1, 1, 2, 0, None, None, ExternalPg) }

EmptyMap == [k \in {} |-> None]

\* keyword arguments a caller passes as **overrides
OverrideChoices ==
    { EmptyMap,
      ("num_cpus" :> 8) @@ ("name" :> 1) @@ ("resources" :> 0)
          @@ ("placement_group" :> None),
      "placement_group" :> ExternalPg,
      "num_cpu" :> 8 }

\* dataclasses.asdict: a new dict holding a copy of every field
asdict(obj) == [k \in KnownKeys |-> obj[k]]

\* variant: a key already in the dict keeps its value
update_DefaultsWin(d, overrides) ==
    [k \in (DOMAIN d) \cup (DOMAIN overrides) |->
        IF k \in DOMAIN d THEN d[k] ELSE overrides[k]]

\* dict.update
update(d, overrides) ==
    [k \in (DOMAIN d) \cup (DOMAIN overrides) |->
        IF k \in DOMAIN overrides THEN overrides[k] ELSE d[k]]

\* variant: unknown keyword arguments are dropped
AcceptsKwargs_Any(options_dict) == TRUE

\* ActorOptions(**options_dict) accepts exactly its declared fields
AcceptsKwargs(options_dict) == DOMAIN options_dict \subseteq KnownKeys

FromKwargs(d) ==
    ActorOptions(d["num_cpus"], d["num_gpus"], d["resources"],
                 d["max_concurrency"], d["name"], d["namespace"],
                 d["lifetime"], d["placement_group"])

\* variant: the handle test is inverted
NeedsPlacementGroup_HandleTestInverted(options, spec) ==
    options.placement_group # None /\ spec # NoSpec

\* variant: a handle already in the option set is not looked at
NeedsPlacementGroup_SpecOnly(options, spec) == spec # NoSpec

NeedsPlacementGroup(options, spec) ==
    options.placement_group = None /\ spec # NoSpec

\* variant: the placement group is left out of the keyword arguments
ActorOptions_to_kwargs_DropsHandle(self) ==
    LET keys == {"num_cpus", "num_gpus"}
                \cup (IF self.resources # None /\ self.resources # 0
                      THEN {"resources"} ELSE {})
                \cup {k \in {"max_concurrency", "name", "namespace",
                             "lifetime"} : self[k] # None}
    IN  [k \in keys |-> self[k]]

ActorOptions_to_kwargs(self) ==
    LET keys == {"num_cpus", "num_gpus"}
                \cup (IF self.resources # None /\ self.resources # 0
                      THEN {"resources"} ELSE {})
                \cup {k \in {"max_concurrency", "name", "namespace",
                             "lifetime", "placement_group"} : self[k] # None}
    IN  [k \in keys |-> self[k]]

\* ------------------------------------------------------------------------
\* State
\* ------------------------------------------------------------------------
VARIABLES
    ray,                  \* module global ray: "module" or "None"
    pg_api,               \* placement_group / remove_placement_group are bound
    sched,                \* the cluster scheduler: one record per placement group
    heap,                 \* ActorOptions objects by identity
    default_options,      \* class attribute: the identity of the shared default
    placement_group_spec, \* class attribute
    calls,                \* calls started so far
    pc,                   \* position of each caller
    frame,                \* arguments and locals of each caller's call
    trace,                \* scheduler calls made by each caller's current call
    outcome,              \* what the current call handed to its caller
    remote_log            \* _ray.remote(**kwargs) invocations, per caller

vars == <<ray, pg_api, sched, heap, default_options, placement_group_spec,
          calls, pc, frame, trace, outcome, remote_log>>

FreePg == [state |-> "FREE", by |-> 0, kwargs |-> NoSpec, removes |-> {}]

Unallocated == [none |-> TRUE]

DefaultRef == 0

Refs == {DefaultRef} \cup CallIds

\* cpg_calls counts the invocations of create_placement_group in the call
NoFrame == [op |-> "none", cid |-> 0, spec |-> NoSpec, overrides |-> EmptyMap,
            pg |-> None, options |-> None, cpg_calls |-> 0]

NoOutcome == [kind |-> "none", value |-> None, exc |-> "none"]

Return(v) == [kind |-> "return", value |-> v, exc |-> "none"]

Raise(e) == [kind |-> "raise", value |-> None, exc |-> e]

\* the import block: ray imported; import failed (neither ray nor the
\* placement API is bound); ray patched to None after a good import
BackendChoices ==
    { [ray |-> "module", pg_api |-> TRUE],
      [ray |-> "None", pg_api |-> FALSE],
      [ray |-> "None", pg_api |-> TRUE] }

Init ==
    /\ \E b \in BackendChoices : ray = b.ray /\ pg_api = b.pg_api
    /\ sched = [t \in Tokens |->
                  IF t = ExternalPg
                  THEN [state |-> "CREATED", by |-> 0,
                        kwargs |-> PlacementGroupSpec_to_kwargs(GpuSpec),
                        removes |-> {}]
                  ELSE FreePg]
    /\ default_options = DefaultRef
    /\ \E d \in DefaultChoices :
          heap = [r \in Refs |-> IF r = DefaultRef THEN d ELSE Unallocated]
    /\ placement_group_spec \in ClassSpecChoices
    /\ calls = 0
    /\ pc = [c \in Callers |-> "idle"]
    /\ frame = [c \in Callers |-> NoFrame]
    /\ trace = [c \in Callers |-> <<>>]
    /\ outcome = [c \in Callers |-> NoOutcome]
    /\ remote_log = [c \in Callers |-> <<>>]

\* ------------------------------------------------------------------------
\* The cluster scheduler (Ray), seen through the three calls the module makes
\* ------------------------------------------------------------------------
Called(c, call, t, result) ==
    [trace EXCEPT ![c] = Append(@, [call |-> call, pg |-> t, result |-> result])]

\* placement_group(**kwargs): a new group, not yet placed
SubmitReservation(c, t, kwargs) ==
    /\ sched' = [sched EXCEPT ![t] = [state |-> "PENDING", by |-> frame[c].cid,
                                      kwargs |-> kwargs, removes |-> {}]]
    /\ trace' = Called(c, "placement_group", t, "ok")

\* ray.wait([pg.ready()], timeout): the ready list is non-empty iff the
\* group was placed before the timeout ran out
IsReady(t) == sched[t].state = "CREATED"

\* remove_placement_group(pg): the request reaches the scheduler; it either
\* removes the group or raises
RemoveReservation(c, t, raised) ==
    /\ sched' = [sched EXCEPT ![t].removes = @ \cup {frame[c].cid},
                              ![t].state = IF raised THEN @ ELSE "REMOVED"]
    /\ trace' = Called(c, "remove_placement_group", t,
                       IF raised THEN "raised" ELSE "ok")

\* the scheduler places a pending group
SchedulerPlaces(t) ==
    /\ sched[t].state = "PENDING"
    /\ sched' = [sched EXCEPT ![t].state = "CREATED"]
    /\ UNCHANGED <<ray, pg_api, heap, default_options, placement_group_spec,
                   calls, pc, frame, trace, outcome, remote_log>>

\* ------------------------------------------------------------------------
\* Control transfer
\* ------------------------------------------------------------------------
\* variant: options catches PlacementFailure and returns the option set
\* without a handle
Propagate_ResolveRecovers(c, e) ==
    IF e = "PlacementFailure" /\ frame[c].op \in {"options", "as_remote"}
    THEN IF frame[c].op = "as_remote"
         THEN pc' = [pc EXCEPT ![c] = "ar_remote"] /\ outcome' = outcome
         ELSE /\ pc' = [pc EXCEPT ![c] = "done"]
              /\ outcome' = [outcome EXCEPT ![c] = Return(frame[c].options)]
    ELSE /\ pc' = [pc EXCEPT ![c] = "done"]
         /\ outcome' = [outcome EXCEPT ![c] = Raise(e)]

\* no function but remove_placement_group_safe catches: an exception raised
\* anywhere else unwinds to the caller of the outermost call
Propagate(c, e) ==
    /\ pc' = [pc EXCEPT ![c] = "done"]
    /\ outcome' = [outcome EXCEPT ![c] = Raise(e)]

ReturnToCaller(c, v) ==
    /\ pc' = [pc EXCEPT ![c] = "done"]
    /\ outcome' = [outcome EXCEPT ![c] = Return(v)]

\* `return options`: to the caller, or back into as_remote
OptionsReturn(c, r) ==
    IF frame[c].op = "as_remote"
    THEN pc' = [pc EXCEPT ![c] = "ar_remote"] /\ outcome' = outcome
    ELSE ReturnToCaller(c, r)

\* `return pg`: to the caller, or into
\* `options.placement_group = create_placement_group(...)`
CpgReturn(c, t) ==
    IF frame[c].op = "create_placement_group"
    THEN ReturnToCaller(c, t) /\ heap' = heap
    ELSE /\ heap' = [heap EXCEPT ![frame[c].options].placement_group = t]
         /\ OptionsReturn(c, frame[c].options)

require_ray == ray # "None"

\* ------------------------------------------------------------------------
\* Calls
\* ------------------------------------------------------------------------
Begin(c, f, first) ==
    /\ pc[c] = "idle"
    /\ c = calls + 1
    /\ calls' = calls + 1
    /\ frame' = [frame EXCEPT ![c] = [f EXCEPT !.cid = calls + 1]]
    /\ pc' = [pc EXCEPT ![c] = first]
    /\ UNCHANGED <<ray, pg_api, sched, heap, default_options,
                   placement_group_spec, trace, outcome, remote_log>>

CallCreatePlacementGroup(c, spec) ==
    Begin(c, [NoFrame EXCEPT !.op = "create_placement_group", !.spec = spec,
                             !.cpg_calls = 1],
          "cpg_require_ray")

CallRemovePlacementGroupSafe(c, h) ==
    Begin(c, [NoFrame EXCEPT !.op = "remove_placement_group_safe", !.pg = h],
          "rpgs_check")

CallOptions(c, overrides) ==
    Begin(c, [NoFrame EXCEPT !.op = "options", !.overrides = overrides],
          "opt_merge")

CallAsRemote(c, overrides) ==
    Begin(c, [NoFrame EXCEPT !.op = "as_remote", !.overrides = overrides],
          "ar_require_ray")

\* the caller takes the result; the call's frame is gone, and so is the
\* ActorOptions object it constructed
Finish(c) ==
    /\ pc[c] = "done"
    /\ heap' = [r \in Refs |-> IF r = frame[c].cid THEN Unallocated ELSE heap[r]]
    /\ pc' = [pc EXCEPT ![c] = "idle"]
    /\ frame' = [frame EXCEPT ![c] = NoFrame]
    /\ trace' = [trace EXCEPT ![c] = <<>>]
    /\ outcome' = [outcome EXCEPT ![c] = NoOutcome]
    /\ remote_log' = [remote_log EXCEPT ![c] = <<>>]
    /\ UNCHANGED <<ray, pg_api, sched, default_options,
                   placement_group_spec, calls>>

\* ------------------------------------------------------------------------
\* create_placement_group
\* ------------------------------------------------------------------------
CpgRequireRay(c) ==
    /\ pc[c] = "cpg_require_ray"
    /\ IF require_ray
       THEN pc' = [pc EXCEPT ![c] = "cpg_placement_group"] /\ outcome' = outcome
       ELSE Propagate(c, "RayDependencyError")
    /\ UNCHANGED <<ray, pg_api, sched, heap, default_options,
                   placement_group_spec, calls, frame, trace, remote_log>>

\* variant: a group some earlier call created is handed out again
NewPlacementGroup_Deduplicated(c) ==
    IF \E t \in CallIds : sched[t].state # "FREE"
    THEN CHOOSE t \in CallIds : sched[t].state # "FREE"
    ELSE frame[c].cid

\* placement_group(...) returns a new PlacementGroup object on every call
NewPlacementGroup(c) == frame[c].cid

CpgPlacementGroup(c) ==
    /\ pc[c] = "cpg_placement_group"
    /\ SubmitReservation(c, NewPlacementGroup(c),
                         PlacementGroupSpec_to_kwargs(frame[c].spec))
    /\ frame' = [frame EXCEPT ![c].pg = NewPlacementGroup(c)]
    /\ pc' = [pc EXCEPT ![c] = "cpg_wait"]
    /\ UNCHANGED <<ray, pg_api, heap, default_options, placement_group_spec,
                   calls, outcome, remote_log>>

\* variant: the ready list is not looked at
CpgWait_NoReadyCheck(c) ==
    /\ pc[c] = "cpg_wait"
    /\ trace' = Called(c, "wait", frame[c].pg,
                       IF IsReady(frame[c].pg) THEN "ready" ELSE "timeout")
    /\ pc' = [pc EXCEPT ![c] = "cpg_remove"]
    /\ UNCHANGED <<ray, pg_api, sched, heap, default_options,
                   placement_group_spec, calls, frame, outcome, remote_log>>

\* variant: the handle is returned whatever the wait reported
CpgWait_ReturnsAlways(c) ==
    /\ pc[c] = "cpg_wait"
    /\ trace' = Called(c, "wait", frame[c].pg,
                       IF IsReady(frame[c].pg) THEN "ready" ELSE "timeout")
    /\ CpgReturn(c, frame[c].pg)
    /\ UNCHANGED <<ray, pg_api, sched, default_options, placement_group_spec,
                   calls, frame, remote_log>>

CpgWait(c) ==
    /\ pc[c] = "cpg_wait"
    /\ LET ready == IsReady(frame[c].pg)
       IN  /\ trace' = Called(c, "wait", frame[c].pg,
                              IF ready THEN "ready" ELSE "timeout")
           /\ IF ready
              THEN CpgReturn(c, frame[c].pg)
              ELSE /\ pc' = [pc EXCEPT ![c] = "cpg_remove"]
                   /\ outcome' = outcome
                   /\ heap' = heap
    /\ UNCHANGED <<ray, pg_api, sched, default_options, placement_group_spec,
                   calls, frame, remote_log>>

\* variant: the release goes to some group the scheduler knows
CpgRemove_ReleasesAny(c) ==
    /\ pc[c] = "cpg_remove"
    /\ \E raised \in BOOLEAN, t \in {u \in Tokens : sched[u].state # "FREE"} :
          /\ RemoveReservation(c, t, raised)
          /\ Propagate(c, IF raised THEN "RemoveError" ELSE "PlacementFailure")
    /\ UNCHANGED <<ray, pg_api, heap, default_options, placement_group_spec,
                   calls, frame, remote_log>>

\* variant: PlacementFailure is raised without releasing the group
CpgRemove_NoRelease(c) ==
    /\ pc[c] = "cpg_remove"
    /\ Propagate(c, "PlacementFailure")
    /\ UNCHANGED <<ray, pg_api, sched, heap, default_options,
                   placement_group_spec, calls, frame, trace, remote_log>>

\* variant: after a release that went through, the reservation is retried
CpgRemove_Retries(c) ==
    /\ pc[c] = "cpg_remove"
    /\ \E raised \in BOOLEAN :
          /\ RemoveReservation(c, frame[c].pg, raised)
          /\ IF raised
             THEN Propagate(c, "RemoveError")
             ELSE /\ pc' = [pc EXCEPT ![c] = "cpg_placement_group"]
                  /\ outcome' = outcome
    /\ UNCHANGED <<ray, pg_api, heap, default_options, placement_group_spec,
                   calls, frame, remote_log>>

\* `remove_placement_group(pg)` then `raise PlacementFailure(...)`: the
\* removal is not guarded, so what it raises leaves the function instead
CpgRemove(c) ==
    /\ pc[c] = "cpg_remove"
    /\ \E raised \in BOOLEAN :
          /\ RemoveReservation(c, frame[c].pg, raised)
          /\ Propagate(c, IF raised THEN "RemoveError" ELSE "PlacementFailure")
    /\ UNCHANGED <<ray, pg_api, heap, default_options, placement_group_spec,
                   calls, frame, remote_log>>

\* ------------------------------------------------------------------------
\* remove_placement_group_safe
\* ------------------------------------------------------------------------
\* variant: no test for None
RpgsCheck_NoNullCheck(c) ==
    /\ pc[c] = "rpgs_check"
    /\ pc' = [pc EXCEPT ![c] = "rpgs_remove"]
    /\ UNCHANGED <<ray, pg_api, sched, heap, default_options,
                   placement_group_spec, calls, frame, trace, outcome,
                   remote_log>>

RpgsCheck(c) ==
    /\ pc[c] = "rpgs_check"
    /\ IF frame[c].pg = None
       THEN ReturnToCaller(c, None)
       ELSE pc' = [pc EXCEPT ![c] = "rpgs_remove"] /\ outcome' = outcome
    /\ UNCHANGED <<ray, pg_api, sched, heap, default_options,
                   placement_group_spec, calls, frame, trace, remote_log>>

\* variant: no try block
RpgsRemove_Propagates(c) ==
    /\ pc[c] = "rpgs_remove"
    /\ IF pg_api
       THEN \E raised \in BOOLEAN :
               /\ RemoveReservation(c, frame[c].pg, raised)
               /\ IF raised THEN Propagate(c, "RemoveError")
                            ELSE ReturnToCaller(c, None)
       ELSE UNCHANGED <<sched, trace>> /\ Propagate(c, "NameError")
    /\ UNCHANGED <<ray, pg_api, heap, default_options, placement_group_spec,
                   calls, frame, remote_log>>

\* the try block: whatever is raised inside it (the scheduler's error, or the
\* NameError of an unbound remove_placement_group) is logged and dropped
RpgsRemove(c) ==
    /\ pc[c] = "rpgs_remove"
    /\ IF pg_api
       THEN \E raised \in BOOLEAN : RemoveReservation(c, frame[c].pg, raised)
       ELSE UNCHANGED <<sched, trace>>
    /\ ReturnToCaller(c, None)
    /\ UNCHANGED <<ray, pg_api, heap, default_options, placement_group_spec,
                   calls, frame, remote_log>>

\* ------------------------------------------------------------------------
\* BaseActor.options, BaseActor.as_remote
\* ------------------------------------------------------------------------
\* variant: the shared default object is used instead of a copy
OptionsObject_Aliased(c) == default_options

\* ActorOptions(**options_dict) constructs a new object
OptionsObject(c) == frame[c].cid

OptMerge(c) ==
    /\ pc[c] = "opt_merge"
    /\ LET options_dict == update(asdict(heap[default_options]),
                                  frame[c].overrides)
           r == OptionsObject(c)
       IN  IF ~AcceptsKwargs(options_dict)
           THEN Propagate(c, "TypeError") /\ UNCHANGED <<heap, frame>>
           ELSE /\ heap' = [heap EXCEPT ![r] = FromKwargs(options_dict)]
                /\ IF NeedsPlacementGroup(FromKwargs(options_dict),
                                          placement_group_spec)
                   THEN /\ frame' = [frame EXCEPT ![c].options = r,
                                         ![c].spec = placement_group_spec,
                                         ![c].cpg_calls = @ + 1]
                        /\ pc' = [pc EXCEPT ![c] = "cpg_require_ray"]
                        /\ outcome' = outcome
                   ELSE /\ frame' = [frame EXCEPT ![c].options = r]
                        /\ OptionsReturn(c, r)
    /\ UNCHANGED <<ray, pg_api, sched, default_options, placement_group_spec,
                   calls, trace, remote_log>>

\* variant: as_remote does not check for ray itself
ArRequireRay_Skipped(c) ==
    /\ pc[c] = "ar_require_ray"
    /\ pc' = [pc EXCEPT ![c] = "opt_merge"]
    /\ UNCHANGED <<ray, pg_api, sched, heap, default_options,
                   placement_group_spec, calls, frame, trace, outcome,
                   remote_log>>

ArRequireRay(c) ==
    /\ pc[c] = "ar_require_ray"
    /\ IF require_ray
       THEN pc' = [pc EXCEPT ![c] = "opt_merge"] /\ outcome' = outcome
       ELSE Propagate(c, "RayDependencyError")
    /\ UNCHANGED <<ray, pg_api, sched, heap, default_options,
                   placement_group_spec, calls, frame, trace, remote_log>>

\* _ray.remote(**options.to_kwargs())(cls)
ArRemote(c) ==
    /\ pc[c] = "ar_remote"
    /\ remote_log' = [remote_log EXCEPT ![c] =
                         Append(@, ActorOptions_to_kwargs(heap[frame[c].options]))]
    /\ ReturnToCaller(c, frame[c].options)
    /\ UNCHANGED <<ray, pg_api, sched, heap, default_options,
                   placement_group_spec, calls, frame, trace>>

\* ------------------------------------------------------------------------
\* Specification
\* ------------------------------------------------------------------------
\* handles a caller can hold: none, or a group the scheduler knows
HandleChoices == {None} \cup {t \in Tokens : sched[t].state # "FREE"}

Next ==
    \/ \E c \in Callers, spec \in SpecChoices : CallCreatePlacementGroup(c, spec)
    \/ \E c \in Callers : \E h \in HandleChoices : CallRemovePlacementGroupSafe(c, h)
    \/ \E c \in Callers, o \in OverrideChoices : CallOptions(c, o)
    \/ \E c \in Callers, o \in OverrideChoices : CallAsRemote(c, o)
    \/ \E c \in Callers : CpgRequireRay(c)
    \/ \E c \in Callers : CpgPlacementGroup(c)
    \/ \E c \in Callers : CpgWait(c)
    \/ \E c \in Callers : CpgRemove(c)
    \/ \E c \in Callers : RpgsCheck(c)
    \/ \E c \in Callers : RpgsRemove(c)
    \/ \E c \in Callers : OptMerge(c)
    \/ \E c \in Callers : ArRequireRay(c)
    \/ \E c \in Callers : ArRemote(c)
    \/ \E c \in Callers : Finish(c)
    \/ \E t \in CallIds : SchedulerPlaces(t)

Spec == Init /\ [][Next]_vars

TypeOK ==
    /\ ray \in {"module", "None"}
    /\ pg_api \in BOOLEAN
    /\ calls \in 0..MaxCalls
    /\ \A c \in Callers : Len(trace[c]) <= 3 /\ Len(remote_log[c]) <= 1

\* ------------------------------------------------------------------------
\* Properties
\* ------------------------------------------------------------------------
\* create_placement_group has run to its end in c's call: the call is over,
\* or as_remote is about to materialize the actor
RanReserve(c) ==
    /\ frame[c].op \in {"create_placement_group", "options", "as_remote"}
    /\ pc[c] \in {"done", "ar_remote"}
    /\ frame[c].cpg_calls > 0

WaitResult(c, result) ==
    \E i \in 1..Len(trace[c]) :
        trace[c][i].call = "wait" /\ trace[c][i].result = result

Removals(c) ==
    {i \in 1..Len(trace[c]) : trace[c][i].call = "remove_placement_group"}

ReleaseRaised(c) ==
    \E i \in Removals(c) : trace[c][i].result = "raised"

\* C1: a reserve whose wait timed out fails with PlacementFailure, having
\* made exactly one release call, on the group it submitted itself, before
\* the failure reached the caller.
C1_TimeoutRaisesPlacementFailure ==
    \A c \in Callers :
        (RanReserve(c) /\ WaitResult(c, "timeout")) =>
            /\ outcome[c] = Raise("PlacementFailure")
            /\ Len(trace[c]) = 3
            /\ trace[c][1].call = "placement_group"
            /\ trace[c][3].call = "remove_placement_group"
            /\ trace[c][3].pg = trace[c][1].pg

\* C2: when the release on the timeout path raises, the caller still gets
\* PlacementFailure, not the release's error.
C2_ReleaseErrorNotRaised ==
    \A c \in Callers :
        (RanReserve(c) /\ ReleaseRaised(c)) =>
            outcome[c] = Raise("PlacementFailure")

\* the handle create_placement_group returned within c's call
ReserveReturned(c, t) ==
    IF frame[c].op = "create_placement_group"
    THEN outcome[c] = Return(t)
    ELSE /\ frame[c].options # None
         /\ heap[frame[c].options].placement_group = t

\* C3: a reserve whose wait reported ready returns the handle its own submit
\* produced and makes no release call.
C3_ReadyReturnsOwnHandle ==
    \A c \in Callers :
        (RanReserve(c) /\ WaitResult(c, "ready")) =>
            /\ Len(trace[c]) = 2
            /\ trace[c][1].call = "placement_group"
            /\ trace[c][1].pg = frame[c].cid
            /\ trace[c][2] = [call |-> "wait", pg |-> frame[c].cid,
                              result |-> "ready"]
            /\ Removals(c) = {}
            /\ ReserveReturned(c, trace[c][1].pg)

C3_Witness ==
    \E c \in Callers :
        /\ frame[c].op = "create_placement_group"
        /\ pc[c] = "done"
        /\ WaitResult(c, "ready")
        /\ outcome[c].kind = "return"

\* C4: release of a null handle returns normally, makes no scheduler call
\* and leaves the scheduler's state as it was.
C4_ReleaseNoneIsNoOp ==
    [][\A c \in Callers :
          (/\ pc[c] = "rpgs_check"
           /\ frame[c].pg = None
           /\ pc'[c] # pc[c]) =>
              /\ pc'[c] = "done"
              /\ outcome'[c] = Return(None)
              /\ trace'[c] = <<>>
              /\ sched' = sched]_vars

C4_Witness ==
    \E c \in Callers :
        /\ frame[c].op = "remove_placement_group_safe"
        /\ frame[c].pg = None
        /\ pc[c] = "done"
        /\ outcome[c] = Return(None)
        /\ trace[c] = <<>>

\* C5: release of a non-null handle whose scheduler-side removal raises
\* returns normally, having requested exactly one removal, of that handle.
C5_ReleaseSwallowsError ==
    \A c \in Callers :
        (/\ frame[c].op = "remove_placement_group_safe"
         /\ frame[c].pg # None
         /\ pc[c] = "done") =>
            /\ outcome[c] = Return(None)
            /\ Len(trace[c]) <= 1
            /\ ReleaseRaised(c) =>
                  trace[c] = <<[call |-> "remove_placement_group",
                                pg |-> frame[c].pg, result |-> "raised"]>>

C5_Witness ==
    \E c \in Callers :
        /\ frame[c].op = "remove_placement_group_safe"
        /\ pc[c] = "done"
        /\ ReleaseRaised(c)
        /\ outcome[c] = Return(None)

\* the option set BaseActor.options returned within c's call
Resolved(c) ==
    /\ frame[c].op \in {"options", "as_remote"}
    /\ pc[c] \in {"done", "ar_remote"}
    /\ frame[c].options # None
    /\ pc[c] = "done" => outcome[c].kind = "return"

OnlyKnownKeys(overrides) == DOMAIN overrides \subseteq KnownKeys

\* C6: with only known override keys, the resolved option set has the
\* override's value for every overridden key and the class default's value
\* for every other key (the placement handle aside when a reservation was
\* made).
C6_MergeOverridesDefaults ==
    \A c \in Callers :
        (Resolved(c) /\ OnlyKnownKeys(frame[c].overrides)) =>
            \A k \in KnownKeys :
                (k = "placement_group" /\ frame[c].cpg_calls > 0)
                \/ heap[frame[c].options][k] =
                      IF k \in DOMAIN frame[c].overrides
                      THEN frame[c].overrides[k]
                      ELSE heap[default_options][k]

C6_Witness ==
    \E c \in Callers :
        /\ Resolved(c)
        /\ frame[c].op = "options"
        /\ pc[c] = "done"
        /\ frame[c].cpg_calls = 0
        /\ \E k \in KnownKeys :
              /\ k \in DOMAIN frame[c].overrides
              /\ frame[c].overrides[k] # heap[default_options][k]
              /\ heap[outcome[c].value][k] = frame[c].overrides[k]
        /\ \E k \in KnownKeys \ DOMAIN frame[c].overrides :
              /\ heap[default_options][k] # None
              /\ heap[outcome[c].value][k] = heap[default_options][k]

\* BaseActor.options was entered in c's call and has run to its end
OptionsEnded(c) ==
    \/ frame[c].op = "options" /\ pc[c] = "done"
    \/ frame[c].op = "as_remote" /\ require_ray /\ pc[c] \in {"done", "ar_remote"}

NoSchedulerCall(c) == trace[c] = <<>> /\ frame[c].cpg_calls = 0

NoHandleOverride(overrides) ==
    "placement_group" \in DOMAIN overrides => overrides["placement_group"] = None

\* exactly one create_placement_group call, with the class's spec, and a
\* returned option set carries the handle that call returned
ReservedOnce(c) ==
    /\ frame[c].cpg_calls = 1
    /\ frame[c].spec = placement_group_spec
    /\ (pc[c] = "ar_remote" \/ outcome[c].kind = "return") =>
          /\ trace[c] = <<[call |-> "placement_group", pg |-> frame[c].pg,
                           result |-> "ok"],
                          [call |-> "wait", pg |-> frame[c].pg,
                           result |-> "ready"]>>
          /\ frame[c].options # None
          /\ heap[frame[c].options].placement_group = frame[c].pg
          /\ frame[c].pg # None

\* C8 as stated: when the class declares a placement spec and no override
\* supplies a placement handle, resolve calls reserve exactly once, with the
\* class's spec, and the returned option set carries the handle reserve
\* returned.
C8_SpecWithoutOverrideReservesOnce ==
    \A c \in Callers :
        (/\ OptionsEnded(c)
         /\ placement_group_spec # NoSpec
         /\ NoHandleOverride(frame[c].overrides)) =>
            ReservedOnce(c)

\* C8 amended: when the class declares a placement spec, the overrides hold
\* only known keys and neither an override nor the class default supplies a
\* placement handle, resolve calls reserve exactly once, with the class's
\* spec, and the returned option set carries the handle reserve returned.
C8_NoHandleReservesOnce ==
    \A c \in Callers :
        (/\ OptionsEnded(c)
         /\ placement_group_spec # NoSpec
         /\ OnlyKnownKeys(frame[c].overrides)
         /\ update(asdict(heap[default_options]),
                   frame[c].overrides)["placement_group"] = None) =>
            ReservedOnce(c)

C8_Witness ==
    \E c \in Callers :
        /\ frame[c].op = "options"
        /\ pc[c] = "done"
        /\ placement_group_spec # NoSpec
        /\ "placement_group" \notin DOMAIN frame[c].overrides
        /\ outcome[c].kind = "return"
        /\ frame[c].cpg_calls = 1
        /\ heap[outcome[c].value].placement_group = frame[c].cid

\* C9: with the execution backend unavailable, as_remote fails with
\* RayDependencyError and nothing was attempted before: no
\* create_placement_group call, no scheduler call, no option set, no actor.
C9_NoBackendFailsFirst ==
    \A c \in Callers :
        (frame[c].op = "as_remote" /\ ray = "None"
         /\ pc[c] # "ar_require_ray") =>
            /\ pc[c] = "done"
            /\ outcome[c] = Raise("RayDependencyError")
            /\ NoSchedulerCall(c)
            /\ frame[c].options = None
            /\ remote_log[c] = <<>>

C9_Witness ==
    \E c \in Callers :
        /\ frame[c].op = "as_remote"
        /\ ray = "None"
        /\ placement_group_spec # NoSpec
        /\ heap[default_options].placement_group = None
        /\ OnlyKnownKeys(frame[c].overrides)
        /\ pc[c] = "done"
        /\ outcome[c] = Raise("RayDependencyError")

\* C10: no step of any call changes the class's shared default option set
\* or its placement spec.
C10_ClassConfigUnchanged ==
    [][/\ default_options' = default_options
       /\ heap'[default_options'] = heap[default_options]
       /\ placement_group_spec' = placement_group_spec]_vars

C10_Witness ==
    \E c \in Callers :
        /\ frame[c].op = "options"
        /\ pc[c] = "done"
        /\ outcome[c].kind = "return"
        /\ frame[c].cpg_calls = 1
        /\ heap[outcome[c].value].placement_group = frame[c].pg
        /\ heap[default_options].placement_group = None
        /\ calls = MaxCalls

\* two calls that both returned an option set for the same overrides
SameResolution(c1, c2) ==
    /\ c1 # c2
    /\ Resolved(c1) /\ Resolved(c2)
    /\ frame[c1].overrides = frame[c2].overrides

\* C11: two resolutions with the same overrides against the same class
\* return option sets equal in every field but the placement handle; the
\* handle is the same when neither call reserved, and each call's own new
\* reservation when they did.
C11_ResolveTwiceEqual ==
    \A c1, c2 \in Callers :
        SameResolution(c1, c2) =>
            LET o1 == heap[frame[c1].options]
                o2 == heap[frame[c2].options]
            IN  /\ \A k \in KnownKeys \ {"placement_group"} : o1[k] = o2[k]
                /\ frame[c1].cpg_calls = frame[c2].cpg_calls
                /\ frame[c1].cpg_calls = 0 =>
                      o1.placement_group = o2.placement_group
                /\ frame[c1].cpg_calls > 0 =>
                      /\ o1.placement_group # o2.placement_group
                      /\ o1.placement_group = frame[c1].pg
                      /\ o2.placement_group = frame[c2].pg
                      /\ "placement_group" \in DOMAIN frame[c1].overrides =>
                            frame[c1].overrides["placement_group"] = None

C11_Witness ==
    \E c1, c2 \in Callers :
        /\ SameResolution(c1, c2)
        /\ pc[c1] = "done" /\ pc[c2] = "done"
        /\ frame[c1].cpg_calls = 1
        /\ heap[frame[c1].options].num_cpus # heap[default_options].num_cpus
        /\ heap[frame[c1].options].placement_group
              # heap[frame[c2].options].placement_group

\* create_placement_group, called by options in c's call, released its
\* group after a timeout and raised PlacementFailure
ReserveFailedInResolve(c) ==
    /\ frame[c].op \in {"options", "as_remote"}
    /\ \E i \in Removals(c) : trace[c][i].result = "ok"

\* C12: when the reserve call inside resolve fails with PlacementFailure,
\* resolve fails with PlacementFailure too: nothing catches it, nothing is
\* retried, no option set is returned and no actor is materialized.
C12_ResolvePropagatesPlacementFailure ==
    \A c \in Callers :
        ReserveFailedInResolve(c) =>
            /\ pc[c] = "done"
            /\ outcome[c] = Raise("PlacementFailure")
            /\ frame[c].cpg_calls = 1
            /\ Len(trace[c]) = 3
            /\ remote_log[c] = <<>>

C12_Witness ==
    \E c \in Callers :
        /\ ReserveFailedInResolve(c)
        /\ frame[c].op = "options"
        /\ outcome[c] = Raise("PlacementFailure")

\* the scheduler calls of one reservation attempt, in order
AttemptTrace(c, n) ==
    /\ Len(trace[c]) = n
    /\ n >= 1 => trace[c][1] = [call |-> "placement_group", pg |-> frame[c].pg,
                                result |-> "ok"]
    /\ n >= 2 => /\ trace[c][2].call = "wait"
                 /\ trace[c][2].pg = frame[c].pg
                 /\ trace[c][2].result \in {"ready", "timeout"}
    /\ n >= 3 => /\ trace[c][2].result = "timeout"
                 /\ trace[c][3].call = "remove_placement_group"
                 /\ trace[c][3].pg = frame[c].pg

\* C13: a reservation attempt goes REQUESTED -> READY or REQUESTED ->
\* TIMED_OUT -> RELEASED: one submit, one wait, a release only after a
\* timeout, no retry and no scheduler call after READY or RELEASED.
C13_AttemptStateMachine ==
    \A c \in Callers :
        frame[c].cpg_calls > 0 =>
            /\ frame[c].cpg_calls = 1
            /\ pc[c] \in {"cpg_require_ray", "cpg_placement_group"} =>
                  AttemptTrace(c, 0)
            /\ pc[c] = "cpg_wait" => AttemptTrace(c, 1)
            /\ pc[c] = "cpg_remove" =>
                  AttemptTrace(c, 2) /\ trace[c][2].result = "timeout"
            /\ pc[c] \in {"done", "ar_remote"} =>
                  \/ AttemptTrace(c, 0) /\ outcome[c] = Raise("RayDependencyError")
                  \/ AttemptTrace(c, 2) /\ trace[c][2].result = "ready"
                  \/ AttemptTrace(c, 3)

C13_Witness ==
    \E c1, c2 \in Callers :
        /\ pc[c1] = "done" /\ pc[c2] = "done"
        /\ frame[c1].cpg_calls = 1 /\ frame[c2].cpg_calls = 1
        /\ AttemptTrace(c1, 2) /\ trace[c1][2].result = "ready"
        /\ AttemptTrace(c2, 3)

\* the placement_group entry of the defaults with c's overrides applied
MergedHandle(c) ==
    update(asdict(heap[default_options]), frame[c].overrides)["placement_group"]

\* C14: resolve calls reserve iff the option set built from the defaults
\* and the overrides has no placement handle and the class declares a spec;
\* otherwise it makes no scheduler call and the returned handle is the
\* merged value.  No option set is built from unknown keys, and then no
\* reserve is called either.
C14_ReservesIffNoHandleAndSpec ==
    \A c \in Callers :
        OptionsEnded(c) =>
            IF OnlyKnownKeys(frame[c].overrides)
            THEN /\ (frame[c].cpg_calls > 0) <=>
                      (MergedHandle(c) = None /\ placement_group_spec # NoSpec)
                 /\ (MergedHandle(c) # None \/ placement_group_spec = NoSpec) =>
                      /\ NoSchedulerCall(c)
                      /\ Resolved(c)
                      /\ heap[frame[c].options].placement_group = MergedHandle(c)
            ELSE NoSchedulerCall(c)

C14_Witness ==
    \E c \in Callers :
        /\ frame[c].op = "options"
        /\ pc[c] = "done"
        /\ placement_group_spec # NoSpec
        /\ "placement_group" \in DOMAIN frame[c].overrides
        /\ frame[c].overrides["placement_group"] = ExternalPg
        /\ heap[default_options].placement_group = None
        /\ NoSchedulerCall(c)
        /\ outcome[c].kind = "return"
        /\ heap[outcome[c].value].placement_group = ExternalPg

\* c's call has submitted a reservation
Submitted(c) == frame[c].cpg_calls > 0 /\ frame[c].pg # None

\* C15: concurrent calls are not deduplicated: any two calls that submitted
\* a reservation submitted two different groups, each recorded by the
\* scheduler for its own call, and two calls that returned hold different
\* handles.
C15_NoDeduplication ==
    \A c1, c2 \in Callers :
        (c1 # c2 /\ Submitted(c1) /\ Submitted(c2)) =>
            /\ frame[c1].pg # frame[c2].pg
            /\ sched[frame[c1].pg].by = frame[c1].cid
            /\ sched[frame[c2].pg].by = frame[c2].cid
            /\ trace[c1][1].pg # trace[c2][1].pg
            /\ (/\ RanReserve(c1) /\ WaitResult(c1, "ready")
                /\ RanReserve(c2) /\ WaitResult(c2, "ready")) =>
                  \A t1, t2 \in Tokens :
                      (ReserveReturned(c1, t1) /\ ReserveReturned(c2, t2)) =>
                          t1 # t2

\* two resolutions of the same class are waiting on their reservations at
\* the same time
C15_Witness ==
    \E c1, c2 \in Callers :
        /\ c1 # c2
        /\ frame[c1].op = "options" /\ frame[c2].op = "options"
        /\ pc[c1] = "cpg_wait" /\ pc[c2] = "cpg_wait"
        /\ frame[c1].pg # frame[c2].pg
        /\ sched[frame[c1].pg].state = "PENDING"
        /\ sched[frame[c2].pg].state = "PENDING"

\* the scheduler has a release request of c's call for c's own group
ReleaseRequested(c) == frame[c].cid \in sched[frame[c].pg].removes

\* C16: when a reserve call has ended, the group it submitted was either
\* returned as the handle or has a release request at the scheduler; a
\* call that failed left none of its own without one.
C16_NoLeakOnFailure ==
    \A c \in Callers :
        (RanReserve(c) /\ Submitted(c)) =>
            /\ ReleaseRequested(c) \/ ReserveReturned(c, frame[c].pg)
            /\ (pc[c] = "done" /\ outcome[c].kind = "raise") =>
                  /\ ReleaseRequested(c)
                  /\ Removals(c) # {}
            /\ ReleaseRequested(c) => ~WaitResult(c, "ready")

C16_Witness ==
    \E c \in Callers :
        /\ RanReserve(c) /\ Submitted(c)
        /\ outcome[c] = Raise("PlacementFailure")
        /\ ReleaseRequested(c)
        /\ sched[frame[c].pg].state = "REMOVED"

\* the data-model invariants of a placement spec
ValidSpec(spec) == Len(spec.bundles) > 0 /\ spec.timeout_s > 0

\* C17 as stated: every spec create_placement_group submits has a non-empty
\* bundles sequence and a timeout_s above 0.
C17_SubmittedSpecValid ==
    \A c \in Callers :
        Submitted(c) =>
            /\ ValidSpec(frame[c].spec)
            /\ Len(sched[frame[c].pg].kwargs.bundles) > 0

\* C17 amended: create_placement_group submits the bundles and the strategy
\* of the spec it was given, unchanged and unvalidated; what it submits has
\* non-empty bundles exactly when the given spec has.
C17_SubmittedSpecAsGiven ==
    \A c \in Callers :
        Submitted(c) =>
            /\ sched[frame[c].pg].kwargs.bundles = frame[c].spec.bundles
            /\ sched[frame[c].pg].kwargs.strategy = frame[c].spec.strategy
            /\ DOMAIN sched[frame[c].pg].kwargs = {"bundles", "strategy"}
            /\ ValidSpec(frame[c].spec) =>
                  Len(sched[frame[c].pg].kwargs.bundles) > 0
            /\ frame[c].op # "create_placement_group" =>
                  frame[c].spec = placement_group_spec

C17_Witness ==
    \E c1, c2 \in Callers :
        /\ Submitted(c1) /\ Submitted(c2)
        /\ frame[c1].op = "options"
        /\ ValidSpec(frame[c1].spec)
        /\ sched[frame[c1].pg].kwargs.bundles = <<[GPU |-> 1]>>
        /\ ~ValidSpec(frame[c2].spec)
        /\ sched[frame[c2].pg].kwargs.bundles = <<>>

\* C18: a handle returned by create_placement_group is one the wait
\* reported ready (the scheduler had placed it) and one this call has not
\* released.
C18_ReturnedHandleIsReady ==
    \A c \in Callers :
        (/\ RanReserve(c) /\ Submitted(c)
         /\ pc[c] = "done" => outcome[c].kind = "return") =>
            /\ ReserveReturned(c, frame[c].pg)
            /\ trace[c][2] = [call |-> "wait", pg |-> frame[c].pg,
                              result |-> "ready"]
            /\ sched[frame[c].pg].state \in {"CREATED", "REMOVED"}
            /\ ~ReleaseRequested(c)
            /\ Removals(c) = {}

C18_Witness ==
    \E c \in Callers :
        /\ frame[c].op = "create_placement_group"
        /\ pc[c] = "done"
        /\ outcome[c] = Return(frame[c].pg)
        /\ frame[c].pg # None
        /\ sched[frame[c].pg].state = "CREATED"

\* C19: the release step of a call that timed out asks for the removal of
\* the group that call submitted and changes no other group at the
\* scheduler, whatever the other calls are doing.
C19_ReleasesOnlyOwn ==
    [][\A c \in Callers :
          (pc[c] = "cpg_remove" /\ pc'[c] # "cpg_remove") =>
              /\ sched[trace[c][1].pg].by = frame[c].cid
              /\ trace'[c][3].call = "remove_placement_group"
              /\ trace'[c][3].pg = trace[c][1].pg
              /\ \A t \in Tokens \ {trace[c][1].pg} : sched'[t] = sched[t]]_vars

\* one call timed out and released its group while another call's ready
\* group is still reserved
C19_Witness ==
    \E c1, c2 \in Callers :
        /\ c1 # c2
        /\ RanReserve(c1) /\ Submitted(c1)
        /\ outcome[c1] = Raise("PlacementFailure")
        /\ sched[frame[c1].pg].state = "REMOVED"
        /\ RanReserve(c2) /\ Submitted(c2)
        /\ WaitResult(c2, "ready")
        /\ sched[frame[c2].pg].state = "CREATED"
        /\ sched[frame[c2].pg].removes = {}

\* the placement group among the keyword arguments kw is h (None: absent)
CarriesHandle(kw, h) ==
    IF h = None
    THEN "placement_group" \notin DOMAIN kw
    ELSE "placement_group" \in DOMAIN kw /\ kw["placement_group"] = h

\* C20: as_remote checks the backend, then resolves, then materializes: the
\* backend is asked for the actor at most once per call, only by as_remote,
\* only after the check passed and resolve returned an option set, with
\* that option set's placement handle, and never when resolve failed.
C20_AsRemoteOrder ==
    \A c \in Callers :
        /\ Len(remote_log[c]) <= 1
        /\ frame[c].op # "as_remote" => remote_log[c] = <<>>
        /\ (frame[c].op = "as_remote" /\ pc[c] \in {"opt_merge", "ar_remote"}) =>
              require_ray /\ remote_log[c] = <<>>
        /\ (frame[c].op = "as_remote" /\ pc[c] = "ar_remote") =>
              frame[c].options # None
        /\ (frame[c].op = "as_remote" /\ pc[c] = "done") =>
              (outcome[c].kind = "return") = (remote_log[c] # <<>>)
        /\ remote_log[c] # <<>> =>
              /\ pc[c] = "done"
              /\ require_ray
              /\ frame[c].options # None
              /\ OnlyKnownKeys(frame[c].overrides)
              /\ outcome[c] = Return(frame[c].options)
              /\ CarriesHandle(remote_log[c][1],
                               heap[frame[c].options].placement_group)
              /\ remote_log[c][1]["num_cpus"] = heap[frame[c].options].num_cpus
              /\ frame[c].cpg_calls > 0 =>
                    /\ WaitResult(c, "ready")
                    /\ CarriesHandle(remote_log[c][1], frame[c].pg)

C20_Witness ==
    \E c \in Callers :
        /\ frame[c].op = "as_remote"
        /\ pc[c] = "done"
        /\ frame[c].cpg_calls = 1
        /\ Len(remote_log[c]) = 1
        /\ "placement_group" \in DOMAIN remote_log[c][1]
        /\ remote_log[c][1]["placement_group"] = frame[c].cid

====
